---- MODULE Spec2Model ----
(***************************************************************************)
(* Model of "jupyter example/helper_functions.py": greet, calculate_square *)
(* and fibonacci, called by several threads of one Python process.         *)
(*                                                                         *)
(* A frame (one per thread) holds the locals of the call the thread is     *)
(* executing; list objects live in a heap and are named by their address,  *)
(* as Python names them by reference.  A caller that got a list back owns  *)
(* the reference and may append to the list or overwrite its elements.     *)
(*                                                                         *)
(* Strings are sequences of characters.  Numbers are records: Python ints  *)
(* are unbounded, Python floats have a largest finite value (FloatMax      *)
(* stands for it); only integral float values are modelled, so the         *)
(* rounding of float operations is outside the model.                      *)
(***************************************************************************)
EXTENDS Integers, Sequences, FiniteSets, TLC

\* ------------------------------------------------------------------ bounds

MinN == 2            \* fibonacci is called with n in -MinN .. MaxN
MaxN == 10
ProbeMaxN == 4       \* the same, in the specification that remembers a call
MaxNameLen == 2      \* names are the character sequences of length <= MaxNameLen
MaxIntArg == 2       \* int arguments of calculate_square: -MaxIntArg .. MaxIntArg
MaxFloatArg == 3     \* float arguments: the integral floats -MaxFloatArg .. MaxFloatArg
FloatMax == 5        \* stands for the largest finite float
MaxMutations == 1    \* mutations a caller makes to one returned list

Threads == {"t1", "t2"}
Alphabet == {"a", "{"}
MutationValues == {-7}

\* ------------------------------------------------------------------ values

Max(a, b) == IF a >= b THEN a ELSE b

IntNum(k) == [kind |-> "int", cls |-> "finite", val |-> k]
FloatNum(k) == [kind |-> "float", cls |-> "finite", val |-> k]
Inf == [kind |-> "float", cls |-> "inf", val |-> 1]
NoNumber == [kind |-> "none", cls |-> "none", val |-> 0]

Numbers ==
    {IntNum(k) : k \in -MaxIntArg .. MaxIntArg}
        \cup {FloatNum(k) : k \in -MaxFloatArg .. MaxFloatArg}
        \cup {Inf}

Names == UNION {[1 .. len -> Alphabet] : len \in 0 .. MaxNameLen}

Ns == -MinN .. MaxN
ProbeNs == -MinN .. ProbeMaxN

Addrs == 1 .. Cardinality(Threads)
Null == 0

\* A returned (or raised) value: a str, a number, a reference to a list, or an
\* exception.
NoValue == [kind |-> "none", str |-> <<>>, num |-> NoNumber, ref |-> Null, exc |-> ""]
StrValue(s) == [NoValue EXCEPT !.kind = "str", !.str = s]
NumValue(x) == [NoValue EXCEPT !.kind = "num", !.num = x]
ListRef(a) == [NoValue EXCEPT !.kind = "list", !.ref = a]
Raised(e) == [NoValue EXCEPT !.kind = "exc", !.exc = e]

\* ------------------------------------------------------------------ greet

\* The literal parts and the replacement field of the f-string.
GreetTemplate ==
    << [field |-> FALSE, text |-> <<"H", "e", "l", "l", "o", ",", " ">>],
       [field |-> TRUE,  text |-> <<>>],
       [field |-> FALSE, text |-> <<"!", " ", "W", "e", "l", "c", "o", "m", "e", " ",
                                    "t", "o", " ", "J", "u", "p", "y", "t", "e", "r", " ",
                                    "n", "o", "t", "e", "b", "o", "o", "k", "s", "!">>] >>

\* A slip: the field written {name!r}, which quotes the name.
FormatRepr(name) == <<"'">> \o name \o <<"'">>

\* format(name, "") of a str: the str itself, its characters taken as they are
\* (braces in the value are not re-interpreted).
FormatStr(name) == name

RECURSIVE JoinedStr(_, _)
JoinedStr(parts, name) ==
    IF parts = <<>> THEN <<>>
    ELSE (IF Head(parts).field THEN FormatStr(name) ELSE Head(parts).text)
             \o JoinedStr(Tail(parts), name)

greet(name) == JoinedStr(GreetTemplate, name)

\* ------------------------------------------------------------------ calculate_square

\* number ** 2.  int ** int is exact; float ** int is C pow(x, 2.0), and Python
\* raises OverflowError when pow reports a range error.
Pow2(number) ==
    IF number.kind = "int" THEN NumValue(IntNum(number.val * number.val))
    ELSE IF number.cls = "inf" THEN NumValue(Inf)
    ELSE IF number.val * number.val > FloatMax THEN Raised("OverflowError")
    ELSE NumValue(FloatNum(number.val * number.val))

calculate_square(number) == Pow2(number)

\* number * number, the product the specification names: float multiplication
\* overflows to inf and raises nothing.
Mul(x, y) ==
    IF x.kind = "int" /\ y.kind = "int" THEN IntNum(x.val * y.val)
    ELSE IF x.cls = "inf" \/ y.cls = "inf" \/ x.val * y.val > FloatMax THEN Inf
    ELSE FloatNum(x.val * y.val)

\* ------------------------------------------------------------------ fibonacci

\* lst[k] with Python's indexing: 0-based, a negative k counts from the end,
\* anything else raises IndexError.
GetItem(lst, k) ==
    IF 0 <= k /\ k < Len(lst) THEN [ok |-> TRUE, val |-> lst[k + 1]]
    ELSE IF -Len(lst) <= k /\ k < 0 THEN [ok |-> TRUE, val |-> lst[Len(lst) + k + 1]]
    ELSE [ok |-> FALSE, val |-> 0]

\* The three early returns: n <= 0, n == 1, n == 2.
ReturnsLiteral(n) == n <= 0 \/ n = 1 \/ n = 2

\* A slip: the guards of the early returns off by one.
LiteralListShifted(n) ==
    IF n < 0 THEN <<>>
    ELSE IF n <= 1 THEN <<0>>
    ELSE <<0, 1>>

LiteralList(n) ==
    IF n <= 0 THEN <<>>
    ELSE IF n = 1 THEN <<0>>
    ELSE <<0, 1>>

\* A slip: the sequence started at 1, 1.
InitialSequenceOnes == <<1, 1>>

\* fib_sequence = [0, 1]
InitialSequence == <<0, 1>>

\* Slips: range(3, n); range(2, n + 1).
RangeStartLate == 2 + 1
InRangeInclusive(i, n) == i <= n

\* range(2, n): the first index, and whether index i is still in the range.
RangeStart == 2
InRange(i, n) == i < n

\* A slip: fib_sequence[i-1] + fib_sequence[i-1].
NextTermDoubled(seq, i) ==
    LET a == GetItem(seq, i - 1)
    IN  [ok |-> a.ok, val |-> a.val + a.val]

\* fib_sequence[i-1] + fib_sequence[i-2]
NextTerm(seq, i) ==
    LET a == GetItem(seq, i - 1)
        b == GetItem(seq, i - 2)
    IN  [ok |-> a.ok /\ b.ok, val |-> a.val + b.val]

\* The index the for statement binds next.
NextIndex(i) == i + 1

\* The whole function run by one caller on its own.
RECURSIVE FibLoop(_, _, _)
FibLoop(seq, i, n) ==
    IF InRange(i, n) /\ NextTerm(seq, i).ok
    THEN FibLoop(Append(seq, NextTerm(seq, i).val), NextIndex(i), n)
    ELSE seq

fibonacci(n) ==
    IF ReturnsLiteral(n) THEN LiteralList(n)
    ELSE FibLoop(InitialSequence, RangeStart, n)

\* ------------------------------------------------------------------ state

VARIABLES
    pc,             \* per thread: "idle", "entry", "loop", "returned", "raised"
    fn,             \* per thread: the function being called, or "none"
    name,           \* greet's argument
    number,         \* calculate_square's argument
    n,              \* fibonacci's argument
    i,              \* fibonacci's loop index
    fib_sequence,   \* fibonacci's local: the address of its list, or Null
    ret,            \* what the call returned or raised
    heap,           \* address -> list contents
    mutated,        \* per thread: mutations the caller made to the returned list
    iters,          \* per thread: loop iterations of the current fibonacci call
    appends,        \* per thread: appends of the current fibonacci call
    probe           \* one earlier call, remembered with its output

vars == <<pc, fn, name, number, n, i, fib_sequence, ret, heap, mutated, iters,
          appends, probe>>

NoProbe ==
    [fn |-> "none", name |-> <<>>, number |-> NoNumber, n |-> 0,
     out |-> [kind |-> "none", str |-> <<>>, num |-> NoNumber, list |-> <<>>, exc |-> ""],
     between |-> FALSE]

\* The addresses some frame refers to.
Live == {fib_sequence[t] : t \in Threads} \cup {ret[t].ref : t \in Threads}

\* A slip: one list object kept by the module and handed to every call (as a
\* mutable default argument is).
AllocShared == CHOOSE a \in Addrs : \A b \in Addrs : a <= b

\* A list display allocates a new object: an address nothing refers to.
Alloc == CHOOSE a \in Addrs \ Live : \A b \in Addrs \ Live : a <= b

\* The value a call produced, lists by content.
Out(t) ==
    [kind |-> ret[t].kind, str |-> ret[t].str, num |-> ret[t].num,
     list |-> IF ret[t].kind = "list" THEN heap[ret[t].ref] ELSE <<>>,
     exc |-> ret[t].exc]

Init ==
    /\ pc = [t \in Threads |-> "idle"]
    /\ fn = [t \in Threads |-> "none"]
    /\ name = [t \in Threads |-> <<>>]
    /\ number = [t \in Threads |-> NoNumber]
    /\ n = [t \in Threads |-> 0]
    /\ i = [t \in Threads |-> 0]
    /\ fib_sequence = [t \in Threads |-> Null]
    /\ ret = [t \in Threads |-> NoValue]
    /\ heap = [a \in Addrs |-> <<>>]
    /\ mutated = [t \in Threads |-> 0]
    /\ iters = [t \in Threads |-> 0]
    /\ appends = [t \in Threads |-> 0]
    /\ probe = NoProbe

\* A call made after the probe was taken.
NoteCall == probe' = IF probe.fn = "none" THEN probe ELSE [probe EXCEPT !.between = TRUE]

\* ------------------------------------------------------------------ actions

CallGreet(t, s) ==
    /\ pc[t] = "idle"
    /\ pc' = [pc EXCEPT ![t] = "returned"]
    /\ fn' = [fn EXCEPT ![t] = "greet"]
    /\ name' = [name EXCEPT ![t] = s]
    /\ ret' = [ret EXCEPT ![t] = StrValue(greet(s))]
    /\ NoteCall
    /\ UNCHANGED <<number, n, i, fib_sequence, heap, mutated, iters, appends>>

CallSquare(t, x) ==
    /\ pc[t] = "idle"
    /\ pc' = [pc EXCEPT ![t] =
                 IF calculate_square(x).kind = "exc" THEN "raised" ELSE "returned"]
    /\ fn' = [fn EXCEPT ![t] = "calculate_square"]
    /\ number' = [number EXCEPT ![t] = x]
    /\ ret' = [ret EXCEPT ![t] = calculate_square(x)]
    /\ NoteCall
    /\ UNCHANGED <<name, n, i, fib_sequence, heap, mutated, iters, appends>>

CallFibonacci(t, k) ==
    /\ pc[t] = "idle"
    /\ pc' = [pc EXCEPT ![t] = "entry"]
    /\ fn' = [fn EXCEPT ![t] = "fibonacci"]
    /\ n' = [n EXCEPT ![t] = k]
    /\ NoteCall
    /\ UNCHANGED <<name, number, i, fib_sequence, ret, heap, mutated, iters, appends>>

\* return [] / return [0] / return [0, 1]
FibReturnLiteral(t) ==
    /\ pc[t] = "entry"
    /\ ReturnsLiteral(n[t])
    /\ heap' = [heap EXCEPT ![Alloc] = LiteralList(n[t])]
    /\ ret' = [ret EXCEPT ![t] = ListRef(Alloc)]
    /\ pc' = [pc EXCEPT ![t] = "returned"]
    /\ UNCHANGED <<fn, name, number, n, i, fib_sequence, mutated, iters, appends, probe>>

\* fib_sequence = [0, 1]; the for statement binds its first index
FibInit(t) ==
    /\ pc[t] = "entry"
    /\ ~ReturnsLiteral(n[t])
    /\ heap' = [heap EXCEPT ![Alloc] = InitialSequence]
    /\ fib_sequence' = [fib_sequence EXCEPT ![t] = Alloc]
    /\ i' = [i EXCEPT ![t] = RangeStart]
    /\ pc' = [pc EXCEPT ![t] = "loop"]
    /\ UNCHANGED <<fn, name, number, n, ret, mutated, iters, appends, probe>>

\* one iteration: fib_sequence.append(fib_sequence[i-1] + fib_sequence[i-2])
FibLoopStep(t) ==
    /\ pc[t] = "loop"
    /\ InRange(i[t], n[t])
    /\ LET term == NextTerm(heap[fib_sequence[t]], i[t])
       IN  IF term.ok
           THEN /\ heap' = [heap EXCEPT ![fib_sequence[t]] = Append(@, term.val)]
                /\ i' = [i EXCEPT ![t] = NextIndex(@)]
                /\ appends' = [appends EXCEPT ![t] = @ + 1]
                /\ UNCHANGED <<pc, ret, fib_sequence>>
           ELSE /\ pc' = [pc EXCEPT ![t] = "raised"]
                /\ ret' = [ret EXCEPT ![t] = Raised("IndexError")]
                /\ fib_sequence' = [fib_sequence EXCEPT ![t] = Null]
                /\ UNCHANGED <<heap, i, appends>>
    /\ iters' = [iters EXCEPT ![t] = @ + 1]
    /\ UNCHANGED <<fn, name, number, n, mutated, probe>>

\* the range is exhausted: return fib_sequence
FibReturn(t) ==
    /\ pc[t] = "loop"
    /\ ~InRange(i[t], n[t])
    /\ ret' = [ret EXCEPT ![t] = ListRef(fib_sequence[t])]
    /\ fib_sequence' = [fib_sequence EXCEPT ![t] = Null]
    /\ pc' = [pc EXCEPT ![t] = "returned"]
    /\ UNCHANGED <<fn, name, number, n, i, heap, mutated, iters, appends, probe>>

\* The caller appends to the list it was handed.
CallerAppend(t, v) ==
    /\ pc[t] = "returned"
    /\ ret[t].kind = "list"
    /\ mutated[t] < MaxMutations
    /\ heap' = [heap EXCEPT ![ret[t].ref] = Append(@, v)]
    /\ mutated' = [mutated EXCEPT ![t] = @ + 1]
    /\ UNCHANGED <<pc, fn, name, number, n, i, fib_sequence, ret, iters, appends, probe>>

\* The caller overwrites an element of the list it was handed: lst[k] = v.
CallerSetItem(t, k, v) ==
    /\ pc[t] = "returned"
    /\ ret[t].kind = "list"
    /\ mutated[t] < MaxMutations
    /\ 0 <= k /\ k < Len(heap[ret[t].ref])
    /\ heap' = [heap EXCEPT ![ret[t].ref] = [@ EXCEPT ![k + 1] = v]]
    /\ mutated' = [mutated EXCEPT ![t] = @ + 1]
    /\ UNCHANGED <<pc, fn, name, number, n, i, fib_sequence, ret, iters, appends, probe>>

\* The indices a caller overwrites: the first and the last.
SetItemIndices(t) ==
    IF ret[t].kind = "list" THEN {0, Len(heap[ret[t].ref]) - 1} ELSE {}

\* The remembered call: one that has just returned or raised.
Observe(t) ==
    /\ probe.fn = "none"
    /\ pc[t] \in {"returned", "raised"}
    /\ mutated[t] = 0
    /\ probe' = [fn |-> fn[t], name |-> name[t], number |-> number[t], n |-> n[t],
                 out |-> Out(t), between |-> FALSE]
    /\ UNCHANGED <<pc, fn, name, number, n, i, fib_sequence, ret, heap, mutated, iters,
                   appends>>

\* The caller drops the result (a list nothing refers to is reclaimed) and is
\* ready for its next call.
Discard(t) ==
    /\ pc[t] \in {"returned", "raised"}
    /\ pc' = [pc EXCEPT ![t] = "idle"]
    /\ fn' = [fn EXCEPT ![t] = "none"]
    /\ name' = [name EXCEPT ![t] = <<>>]
    /\ number' = [number EXCEPT ![t] = NoNumber]
    /\ n' = [n EXCEPT ![t] = 0]
    /\ i' = [i EXCEPT ![t] = 0]
    /\ ret' = [ret EXCEPT ![t] = NoValue]
    /\ heap' = IF ret[t].kind = "list" THEN [heap EXCEPT ![ret[t].ref] = <<>>] ELSE heap
    /\ mutated' = [mutated EXCEPT ![t] = 0]
    /\ iters' = [iters EXCEPT ![t] = 0]
    /\ appends' = [appends EXCEPT ![t] = 0]
    /\ UNCHANGED <<fib_sequence, probe>>

FibStep(t) == FibReturnLiteral(t) \/ FibInit(t) \/ FibLoopStep(t) \/ FibReturn(t)

CallerMutates(t) ==
    \/ \E v \in MutationValues : CallerAppend(t, v)
    \/ \E v \in MutationValues, k \in SetItemIndices(t) : CallerSetItem(t, k, v)

\* Every function, called from every thread, the callers mutating what they get.
Next ==
    \E t \in Threads :
        \/ \E s \in Names : CallGreet(t, s)
        \/ \E x \in Numbers : CallSquare(t, x)
        \/ \E k \in Ns : CallFibonacci(t, k)
        \/ FibStep(t)
        \/ CallerMutates(t)
        \/ Discard(t)

Spec == Init /\ [][Next]_vars

\* The same, one call being remembered to compare later calls with.
PureNext ==
    \E t \in Threads :
        \/ \E s \in Names : CallGreet(t, s)
        \/ \E x \in Numbers : CallSquare(t, x)
        \/ \E k \in ProbeNs : CallFibonacci(t, k)
        \/ FibStep(t)
        \/ CallerMutates(t)
        \/ Observe(t)
        \/ Discard(t)

PureSpec == Init /\ [][PureNext]_vars

\* fibonacci alone; a thread that is inside a call keeps running (each call
\* executes to completion on its caller's thread).
FibNext ==
    \E t \in Threads :
        \/ \E k \in Ns : CallFibonacci(t, k)
        \/ FibStep(t)
        \/ Discard(t)

FairSpec == Init /\ [][FibNext]_vars /\ \A t \in Threads : WF_vars(FibStep(t))

\* ------------------------------------------------------------------ properties

\* The reference sequence: F(0) = 0, F(1) = 1, F(k) = F(k-1) + F(k-2).
RECURSIVE F(_)
F(k) == IF k = 0 THEN 0 ELSE IF k = 1 THEN 1 ELSE F(k - 1) + F(k - 2)

Reference(m) == [k \in 1 .. m |-> F(k - 1)]

\* Thread t holds the list a fibonacci call returned, as it was returned.
FibReturned(t) == pc[t] = "returned" /\ fn[t] = "fibonacci" /\ mutated[t] = 0

Result(t) == heap[ret[t].ref]

\* C1: for every n >= 1, fibonacci(n) is the list [F(0), ..., F(n-1)] of the
\* reference sequence; fibonacci(1) = [0], fibonacci(2) = [0, 1],
\* fibonacci(5) = [0, 1, 1, 2, 3], fibonacci(10) = [0, 1, 1, 2, 3, 5, 8, 13, 21, 34].
C1_FirstTerms ==
    \A t \in Threads :
        FibReturned(t) /\ n[t] >= 1 =>
            /\ Result(t) = Reference(n[t])
            /\ n[t] = 1 => Result(t) = <<0>>
            /\ n[t] = 2 => Result(t) = <<0, 1>>
            /\ n[t] = 5 => Result(t) = <<0, 1, 1, 2, 3>>
            /\ n[t] = 10 => Result(t) = <<0, 1, 1, 2, 3, 5, 8, 13, 21, 34>>

C1_Witness == \E t \in Threads : FibReturned(t) /\ n[t] = 10

\* C2: for every integer n, the list fibonacci(n) returns has length max(n, 0);
\* every n <= 0 yields the empty list.
C2_Length ==
    \A t \in Threads :
        FibReturned(t) =>
            /\ Len(Result(t)) = Max(n[t], 0)
            /\ n[t] <= 0 => Result(t) = <<>>

C2_Witness ==
    \E t, u \in Threads :
        /\ FibReturned(t) /\ n[t] < 0
        /\ FibReturned(u) /\ n[u] >= 3

\* C3: for all n >= 2 the returned list has length n and, at every (0-based)
\* index k with 2 <= k < n, the element is the sum of the two before it.
C3_Recurrence ==
    \A t \in Threads :
        FibReturned(t) /\ n[t] >= 2 =>
            /\ Len(Result(t)) = n[t]
            /\ \A k \in 2 .. n[t] - 1 :
                   Result(t)[k + 1] = Result(t)[k] + Result(t)[k - 1]

C3_Witness == \E t \in Threads : FibReturned(t) /\ n[t] >= 4

SquareDone(t) == fn[t] = "calculate_square" /\ pc[t] \in {"returned", "raised"}

\* C4: for all numbers x, calculate_square(x) is x * x, of x's numeric kind.
C4_SquareIsProduct ==
    \A t \in Threads :
        SquareDone(t) =>
            /\ ret[t].kind = "num"
            /\ ret[t].num = Mul(number[t], number[t])
            /\ ret[t].num.kind = number[t].kind

\* The fixed text around the name.
HelloPrefix == <<"H", "e", "l", "l", "o", ",", " ">>
WelcomeSuffix ==
    <<"!", " ", "W", "e", "l", "c", "o", "m", "e", " ", "t", "o", " ",
      "J", "u", "p", "y", "t", "e", "r", " ",
      "n", "o", "t", "e", "b", "o", "o", "k", "s", "!">>

GreetReturned(t) == pc[t] = "returned" /\ fn[t] = "greet"

\* C5: for every name s, the empty one included, greet(s) is
\* "Hello, " + s + "! Welcome to Jupyter notebooks!": the name once, unmodified,
\* between the fixed prefix and the fixed suffix.
C5_Greeting ==
    \A t \in Threads :
        GreetReturned(t) =>
            /\ ret[t].kind = "str"
            /\ ret[t].str = HelloPrefix \o name[t] \o WelcomeSuffix
            /\ Len(ret[t].str) = Len(HelloPrefix) + Len(name[t]) + Len(WelcomeSuffix)
            /\ SubSeq(ret[t].str, Len(HelloPrefix) + 1, Len(HelloPrefix) + Len(name[t]))
                   = name[t]

C5_Witness ==
    \E t, u \in Threads :
        /\ GreetReturned(t) /\ name[t] = <<>>
        /\ GreetReturned(u) /\ name[u] = <<"{", "a">>

\* Thread t has just completed the call the probe remembers, with the same input.
SameCall(t) ==
    /\ pc[t] \in {"returned", "raised"}
    /\ mutated[t] = 0
    /\ fn[t] = probe.fn
    /\ name[t] = probe.name
    /\ number[t] = probe.number
    /\ n[t] = probe.n

\* C6: a call of greet, calculate_square or fibonacci with the input of an
\* earlier call yields the earlier call's output, whatever was called in between.
C6_SameInputSameOutput == \A t \in Threads : SameCall(t) => Out(t) = probe.out

C6_Witness ==
    \E t, u \in Threads :
        /\ probe.between
        /\ probe.fn = "fibonacci" /\ probe.n >= 3
        /\ SameCall(t)
        /\ ret[t].ref # Null
        /\ u # t /\ mutated[u] > 0

\* The addresses thread t refers to.
Refs(t) == {fib_sequence[t], ret[t].ref} \ {Null}

\* C7: every fibonacci call returns a list of its own, the early returns
\* included: no two threads refer to one list, a caller appending to or
\* overwriting its list changes no list of another call, and every call that
\* returns afterwards returns what fibonacci returns when run alone.
C7_FreshSequence ==
    /\ [](\A t \in Threads :
              /\ \A u \in Threads \ {t} : Refs(t) \cap Refs(u) = {}
              /\ FibReturned(t) => Result(t) = fibonacci(n[t]))
    /\ [][\A t, u \in Threads :
              mutated'[t] > mutated[t] /\ u # t =>
                  \A a \in Refs(u) : heap'[a] = heap[a]]_vars

C7_Witness ==
    \E t, u \in Threads :
        /\ t # u
        /\ fn[t] = "fibonacci" /\ pc[t] = "returned" /\ mutated[t] > 0 /\ n[t] = 2
        /\ FibReturned(u) /\ n[u] = 2

\* C8: under every interleaving of the steps of concurrent fibonacci calls,
\* each call's list is at every step what the call has built when run alone,
\* and so is the list it returns; no frame refers to another frame's list.
C8_Interleaving ==
    \A t \in Threads :
        /\ pc[t] = "loop" => heap[fib_sequence[t]] = fibonacci(i[t])
        /\ FibReturned(t) => Result(t) = fibonacci(n[t])
        /\ \A u \in Threads \ {t} : Refs(t) \cap Refs(u) = {}

C8_Witness ==
    \E t, u \in Threads :
        /\ pc[t] = "loop" /\ pc[u] = "loop"
        /\ n[t] # n[u]
        /\ i[t] >= 3 /\ i[u] > i[t]
        /\ i[t] < n[t] /\ i[u] < n[u]

\* C9: fibonacci(n) terminates for every n: a call that was entered returns;
\* with n <= 2 it returns without entering the loop, with n >= 3 after exactly
\* n - 2 iterations, each one append that leaves the elements before it alone.
C9_Terminates ==
    /\ [](\A t \in Threads :
              /\ iters[t] = appends[t]
              /\ pc[t] = "loop" => iters[t] = i[t] - 2 /\ i[t] <= n[t]
              /\ pc[t] = "returned" /\ fn[t] = "fibonacci" =>
                     /\ iters[t] = Max(n[t] - 2, 0)
                     /\ n[t] <= 2 => i[t] = 0)
    /\ [][\A t \in Threads :
              appends'[t] = appends[t] + 1 =>
                  heap'[fib_sequence[t]]
                      = Append(heap[fib_sequence[t]], F(Len(heap[fib_sequence[t]])))]_vars
    /\ \A t \in Threads : (pc[t] = "entry") ~> (pc[t] = "returned")

C9_Witness ==
    \E t \in Threads :
        pc[t] = "returned" /\ fn[t] = "fibonacci" /\ n[t] = 10 /\ iters[t] = 8

\* C10: at the start of the iteration with index i (2 <= i < n) the list has
\* length exactly i, so fib_sequence[i-1] and fib_sequence[i-2] are in bounds
\* and are its last two elements; no IndexError is ever raised, and the
\* elements already in the list are never modified while the call runs.
C10_LoopInvariant ==
    /\ [](\A t \in Threads :
              /\ ret[t].exc # "IndexError"
              /\ pc[t] = "loop" /\ InRange(i[t], n[t]) =>
                     LET seq == heap[fib_sequence[t]]
                     IN  /\ 2 <= i[t]
                         /\ Len(seq) = i[t]
                         /\ GetItem(seq, i[t] - 1) = [ok |-> TRUE, val |-> seq[Len(seq)]]
                         /\ GetItem(seq, i[t] - 2) = [ok |-> TRUE, val |-> seq[Len(seq) - 1]])
    /\ [][\A t \in Threads :
              pc[t] = "loop" /\ pc'[t] \in {"loop", "returned"} =>
                  LET a == fib_sequence[t]
                  IN  SubSeq(heap'[a], 1, Len(heap[a])) = heap[a]]_vars

C10_Witness ==
    \E t \in Threads : pc[t] = "loop" /\ i[t] >= 3 /\ InRange(i[t], n[t])

====
